---- MODULE Spec2Model ----
(***************************************************************************)
(* Model of the KindError derive macro (src/src/lib.rs) and of the type it *)
(* generates.  One behaviour is one macro invocation on one annotated      *)
(* declaration, followed by uses of the generated type.                    *)
(***************************************************************************)
EXTENDS Naturals, Sequences, FiniteSets

(***************************************************************************)
(* Bounds of the model.                                                    *)
(***************************************************************************)
\* longest attribute list, counted in `key = value` pairs, of the well-separated inputs
MaxPairs == 2
\* longest attribute list, counted in tokens, of the free-form inputs
MaxTokens == 5

(***************************************************************************)
(* String contents.  A string is a sequence of pieces: literal text or a   *)
(* format placeholder; this is what write! sees in a template.             *)
(***************************************************************************)
Text(s) == [t |-> "text", v |-> s, spec |-> ""]
\* {arg} or {arg:?}: the argument named and the format trait asked for
Hole(arg, spec) == [t |-> "hole", v |-> arg, spec |-> spec]

StrMyError == << Text("MyError") >>
StrPub == << Text("pub") >>
StrEmpty == << >>
StrError == << Text("Error") >>
StrTemplate ==
  << Text("Custom error: kind="), Hole("kind", "?"), Text(", source="), Hole("source", "") >>

Strings == { StrMyError, StrPub, StrEmpty, StrTemplate }

None == [some |-> FALSE]
Some(x) == [some |-> TRUE, v |-> x]

(***************************************************************************)
(* Tokens of an attribute list.                                            *)
(***************************************************************************)
Ident(n) == [t |-> "ident", name |-> n, str |-> << >>, b |-> FALSE]
Eq == [t |-> "eq", name |-> "", str |-> << >>, b |-> FALSE]
Comma == [t |-> "comma", name |-> "", str |-> << >>, b |-> FALSE]
LitStr(s) == [t |-> "str", name |-> "", str |-> s, b |-> FALSE]
LitBool(x) == [t |-> "bool", name |-> "", str |-> << >>, b |-> x]

VisKeys == { "new_vis", "type_vis", "kind_fn_vis", "origin_fn_vis" }
StrKeys == { "source", "name", "display" } \cup VisKeys
KnownKeys == StrKeys \cup { "source_fn" }
UnknownKeys == { "foo" }
Keys == KnownKeys \cup UnknownKeys

Values == { LitStr(s) : s \in Strings } \cup { LitBool(TRUE), LitBool(FALSE) }

(***************************************************************************)
(* Diagnostics (syn::Error): a message, the key it names, and a span.      *)
(***************************************************************************)
SpanDecl == [at |-> "decl", pos |-> 0]
SpanAttr == [at |-> "attr", pos |-> 0]
SpanCallSite == [at |-> "call_site", pos |-> 0]
\* the span of the token the cursor is at, or the end of the list
SpanAt(toks, pos) == [at |-> IF pos <= Len(toks) THEN "token" ELSE "end", pos |-> pos]

Diag(m, k, sp) == [msg |-> m, key |-> k, span |-> sp]
NoDiag == Diag("", "", [at |-> "none", pos |-> 0])

Ok(x) == [ok |-> TRUE, v |-> x, diag |-> NoDiag]
Err(d) == [ok |-> FALSE, diag |-> d]

(***************************************************************************)
(* The nested parses of a literal's content, syn::parse_str::<T>.  Every   *)
(* span of a parse_str result, and so of its error, is the call site.      *)
(***************************************************************************)
TypeOf(s) == [path |-> s[1].v]

ParseStrType(s) ==
  IF s = StrMyError THEN Ok(TypeOf(s))
  ELSE Err(Diag("nested parse error", "", SpanCallSite))

ParseStrVisibility(s) ==
  IF s = StrPub THEN Ok("pub")
  ELSE IF s = StrEmpty THEN Ok("inherited")
  ELSE Err(Diag("nested parse error", "", SpanCallSite))

(***************************************************************************)
(* KindErrorAttrs and its parser.                                          *)
(***************************************************************************)
EmptyAttrs ==
  [source |-> None, new_vis |-> None, name |-> None, type_vis |-> None,
   kind_fn_vis |-> None, origin_fn_vis |-> None, source_fn |-> TRUE,
   display |-> None]

TokIs(toks, pos, kind) == pos <= Len(toks) /\ toks[pos].t = kind

\* faulty variant of ParseValue: a key outside the closed set is skipped
ParseValueSkipUnknown(toks, pos, key, a) ==
  IF key \in StrKeys
  THEN IF ~TokIs(toks, pos, "str")
       THEN Err(Diag("expected string literal", "", SpanAt(toks, pos)))
       ELSE LET s == toks[pos].str IN
            IF key = "source"
            THEN LET r == ParseStrType(s) IN
                 IF r.ok THEN Ok([a EXCEPT !.source = Some(r.v)]) ELSE Err(r.diag)
            ELSE IF key \in VisKeys
            THEN LET r == ParseStrVisibility(s) IN
                 IF r.ok THEN Ok([a EXCEPT ![key] = Some(r.v)]) ELSE Err(r.diag)
            ELSE Ok([a EXCEPT ![key] = Some(s)])
  ELSE IF key = "source_fn"
  THEN IF ~TokIs(toks, pos, "bool")
       THEN Err(Diag("expected boolean literal", "", SpanAt(toks, pos)))
       ELSE Ok([a EXCEPT !.source_fn = toks[pos].b])
  ELSE Ok(a)

\* faulty variant of ParseValue: the arm of name is a copy of the arm of source
ParseValueNameAsSource(toks, pos, key, a) ==
  IF key \in StrKeys
  THEN IF ~TokIs(toks, pos, "str")
       THEN Err(Diag("expected string literal", "", SpanAt(toks, pos)))
       ELSE LET s == toks[pos].str IN
            IF key \in { "source", "name" }
            THEN LET r == ParseStrType(s) IN
                 IF r.ok THEN Ok([a EXCEPT !.source = Some(r.v)]) ELSE Err(r.diag)
            ELSE IF key \in VisKeys
            THEN LET r == ParseStrVisibility(s) IN
                 IF r.ok THEN Ok([a EXCEPT ![key] = Some(r.v)]) ELSE Err(r.diag)
            ELSE Ok([a EXCEPT ![key] = Some(s)])
  ELSE IF key = "source_fn"
  THEN IF ~TokIs(toks, pos, "bool")
       THEN Err(Diag("expected boolean literal", "", SpanAt(toks, pos)))
       ELSE Ok([a EXCEPT !.source_fn = toks[pos].b])
  ELSE Err(Diag("unknown attribute key", key, SpanAt(toks, pos - 2)))

\* the value of one `key = value` pair, stored into attrs: the match of parse
ParseValue(toks, pos, key, a) ==
  IF key \in StrKeys
  THEN IF ~TokIs(toks, pos, "str")
       THEN Err(Diag("expected string literal", "", SpanAt(toks, pos)))
       ELSE LET s == toks[pos].str IN
            IF key = "source"
            THEN LET r == ParseStrType(s) IN
                 IF r.ok THEN Ok([a EXCEPT !.source = Some(r.v)]) ELSE Err(r.diag)
            ELSE IF key \in VisKeys
            THEN LET r == ParseStrVisibility(s) IN
                 IF r.ok THEN Ok([a EXCEPT ![key] = Some(r.v)]) ELSE Err(r.diag)
            ELSE Ok([a EXCEPT ![key] = Some(s)])
  ELSE IF key = "source_fn"
  THEN IF ~TokIs(toks, pos, "bool")
       THEN Err(Diag("expected boolean literal", "", SpanAt(toks, pos)))
       ELSE Ok([a EXCEPT !.source_fn = toks[pos].b])
  ELSE Err(Diag("unknown attribute key", key, SpanAt(toks, pos - 2)))

\* one iteration of the while loop of parse, the cursor at pos <= Len(toks)
ParseIteration(toks, pos, a) ==
  IF ~TokIs(toks, pos, "ident")
  THEN [ok |-> FALSE, pos |-> pos, attrs |-> a,
        diag |-> Diag("expected identifier", "", SpanAt(toks, pos))]
  ELSE IF ~TokIs(toks, pos + 1, "eq")
  THEN [ok |-> FALSE, pos |-> pos + 1, attrs |-> a,
        diag |-> Diag("expected =", "", SpanAt(toks, pos + 1))]
  ELSE LET r == ParseValue(toks, pos + 2, toks[pos].name, a) IN
       IF ~r.ok
       THEN [ok |-> FALSE, pos |-> pos + 2, attrs |-> a, diag |-> r.diag]
       ELSE IF pos + 3 > Len(toks)
       THEN [ok |-> TRUE, pos |-> pos + 3, attrs |-> r.v, diag |-> NoDiag]
       ELSE IF ~TokIs(toks, pos + 3, "comma")
       THEN [ok |-> FALSE, pos |-> pos + 3, attrs |-> a,
             diag |-> Diag("expected ,", "", SpanAt(toks, pos + 3))]
       ELSE [ok |-> TRUE, pos |-> pos + 4, attrs |-> r.v, diag |-> NoDiag]

(***************************************************************************)
(* The annotated declaration: DeriveInput.                                 *)
(***************************************************************************)
Attribute(path, form, toks) == [path |-> path, form |-> form, tokens |-> toks]
OtherAttr == Attribute("derive", "list", << Ident("Debug") >>)

Pairs == { << Ident(k), Eq, v >> : k \in Keys, v \in Values }

RECURSIVE Join(_)
\* the pairs written out, a comma between two of them
Join(ps) ==
  IF ps = << >> THEN << >>
  ELSE IF Len(ps) = 1 THEN ps[1]
  ELSE ps[1] \o << Comma >> \o Join(Tail(ps))

FreeTokens ==
  { Ident("source"), Ident("source_fn"), Ident("type_vis"), Ident("foo"), Eq, Comma,
    LitStr(StrMyError), LitStr(StrPub), LitBool(FALSE) }

\* a declaration with the one kind_error attribute #[kind_error(list)]
WithList(data, list) ==
  [data |-> data, ident |-> "ErrorKind",
   attrs |-> << OtherAttr, Attribute("kind_error", "list", list) >>]

\* a few attributes to stand in a declaration that has two kind_error attributes
SecondAttributes ==
  { Attribute("kind_error", "list", l) :
      l \in { << >>, << Ident("source"), Eq, LitStr(StrMyError) >>,
              << Ident("foo"), Eq, LitStr(StrPub) >>, << Comma >> } }

\* no kind_error attribute, one that is no list, or two of them
OtherAttributeLists ==
  { << >>, << OtherAttr >>,
    << OtherAttr, Attribute("kind_error", "path", << >>) >>,
    << OtherAttr, Attribute("kind_error", "name_value", << LitStr(StrMyError) >>) >> }
    \cup { << a, b >> : a \in SecondAttributes \cup { Attribute("kind_error", "path", << >>) },
                        b \in SecondAttributes }

DataKinds == { "enum", "struct", "union" }

\* the declaration has a list of at most `pairs` whole pairs, with or without
\* the trailing comma, or a list of at most `tokens` tokens of any kind
HasListWithin(in, data, pairs, tokens) ==
  \/ \E n \in 0..pairs : \E ps \in [1..n -> Pairs] : \E trailing \in { << >>, << Comma >> } :
       in = WithList(data, Join(ps) \o trailing)
  \/ \E n \in 0..tokens : \E l \in [1..n -> FreeTokens] :
       in = WithList(data, l)

\* the attributes of a declaration that is not an enum are never read: shorter lists do
IsInput(in) ==
  \/ in \in [data : DataKinds, ident : { "ErrorKind" }, attrs : OtherAttributeLists]
  \/ HasListWithin(in, "enum", MaxPairs, MaxTokens)
  \/ \E data \in DataKinds \ { "enum" } :
       HasListWithin(in, data, MaxPairs - 1, MaxTokens - 2)

(***************************************************************************)
(* Values the generated type is used with.                                 *)
(***************************************************************************)
Kind(variant, shape, payload) == [variant |-> variant, shape |-> shape, payload |-> payload]
KindValues ==
  { Kind("First", "unit", ""), Kind("Field1", "named", "hello"),
    Kind("Field1", "named", "bye"), Kind("Code", "unnamed", "7") }
SourceValues == { [desc |-> "err"], [desc |-> "test error"] }

\* #[derive(Debug)] on the kind enum
DebugKind(k) ==
  IF k.shape = "unit" THEN << k.variant >>
  ELSE IF k.shape = "named" THEN << k.variant, " { text: \"", k.payload, "\" }" >>
  ELSE << k.variant, "(", k.payload, ")" >>
\* the user's own Display of the kind enum
DisplayKind(k) == << "Display of " >> \o DebugKind(k)
\* io::Error::other(desc)
DebugSource(s) == << "Custom { kind: Other, error: \"", s.desc, "\" }" >>
DisplaySource(s) == << s.desc >>

Format(field, spec, o) ==
  IF field = "kind"
  THEN IF spec = "?" THEN DebugKind(o.kind) ELSE DisplayKind(o.kind)
  ELSE IF spec = "?" THEN DebugSource(o.source) ELSE DisplaySource(o.source)

(***************************************************************************)
(* The state of one invocation and of the generated type in use.           *)
(***************************************************************************)
VARIABLES input, pc, sel, cursor, attrs, plan, outcome, phases, given, obj, ret
vars == << input, pc, sel, cursor, attrs, plan, outcome, phases, given, obj, ret >>

NoOutcome == [kind |-> "none", diag |-> NoDiag, fragment |-> None]
Failed(d) == [kind |-> "diag", diag |-> d, fragment |-> None]
Panicked == [kind |-> "panic", diag |-> NoDiag, fragment |-> None]
Expanded(f) == [kind |-> "fragment", diag |-> NoDiag, fragment |-> Some(f)]

NoRet == [fn |-> "none", val |-> None]

Init ==
  /\ IsInput(input)
  /\ pc = "enum_check"
  /\ sel = 0
  /\ cursor = 0
  /\ attrs = EmptyAttrs
  /\ plan = None
  /\ outcome = NoOutcome
  /\ phases = << >>
  /\ given = None
  /\ obj = None
  /\ ret = NoRet

Finish(o) ==
  /\ outcome' = o
  /\ pc' = "done"

\* faulty variant of IsEnum: a union passes as well
IsEnumOrUnion(data) == data \in { "enum", "union" }

\* faulty variant of IsEnum: the kind of declaration is not looked at before parsing
IsEnumUnchecked(data) == TRUE

\* Data::Enum(_) => {}
IsEnum(data) == data = "enum"

\* kind_error_impl, the match on input.data
CheckEnum ==
  /\ pc = "enum_check"
  /\ phases' = Append(phases, "enum_check")
  /\ IF IsEnum(input.data)
     THEN pc' = "find_attr" /\ UNCHANGED outcome
     ELSE Finish(Failed(Diag("This macro only supports Enum, not for other types", "",
                             SpanDecl)))
  /\ UNCHANGED << input, sel, cursor, attrs, plan, given, obj, ret >>

\* attrs.iter().find(|attr| attr.path().is_ident("kind_error")): 0 when there is none
FindKindError(as) ==
  IF \E i \in 1..Len(as) : as[i].path = "kind_error"
  THEN CHOOSE i \in 1..Len(as) :
         /\ as[i].path = "kind_error"
         /\ \A j \in 1..(i - 1) : as[j].path # "kind_error"
  ELSE 0

\* parse_kind_error_attrs up to the call of the parser
FindAttr ==
  /\ pc = "find_attr"
  /\ phases' = Append(phases, "parser")
  /\ LET i == FindKindError(input.attrs) IN
     /\ sel' = i
     /\ IF i = 0
        THEN pc' = "resolve" /\ cursor' = cursor /\ UNCHANGED outcome
        ELSE IF input.attrs[i].form = "list"
        THEN pc' = "parse" /\ cursor' = 1 /\ UNCHANGED outcome
        ELSE /\ Finish(Failed(Diag("kind_error attribute must be in the form #[kind_error(...)]",
                                   "", SpanAttr)))
             /\ cursor' = cursor
  /\ attrs' = EmptyAttrs
  /\ UNCHANGED << input, plan, given, obj, ret >>

Tokens == input.attrs[sel].tokens

\* KindErrorAttrs::parse, one iteration of the loop
ParseLoop ==
  /\ pc = "parse"
  /\ cursor <= Len(Tokens)
  /\ LET r == ParseIteration(Tokens, cursor, attrs) IN
     /\ cursor' = r.pos
     /\ attrs' = r.attrs
     /\ IF r.ok THEN UNCHANGED << pc, outcome >> ELSE Finish(Failed(r.diag))
  /\ UNCHANGED << input, sel, plan, phases, given, obj, ret >>

\* KindErrorAttrs::parse, the input is empty: Ok(attrs)
ParseEnd ==
  /\ pc = "parse"
  /\ cursor > Len(Tokens)
  /\ pc' = "resolve"
  /\ UNCHANGED << input, sel, cursor, attrs, plan, outcome, phases, given, obj, ret >>

UnwrapOr(opt, d) == IF opt.some THEN opt.v ELSE d

\* Ident::new panics unless the string is an identifier (keywords included)
IsIdentString(s) == s \in { StrMyError, StrPub, StrError }
IdentNew(s, span) == [sym |-> s[1].v, span |-> span]

\* faulty variant of ResolvedPlan: the accessors default to inherited like the rest
ResolvedPlanPrivateAccessors(a, in) ==
  [source_type |-> a.source.v,
   kind_type |-> in.ident,
   new_vis |-> UnwrapOr(a.new_vis, "inherited"),
   type_vis |-> UnwrapOr(a.type_vis, "inherited"),
   kind_fn_vis |-> UnwrapOr(a.kind_fn_vis, "inherited"),
   origin_fn_vis |-> UnwrapOr(a.origin_fn_vis, "inherited"),
   name |-> IdentNew(UnwrapOr(a.name, StrError), "ident of the declaration")]

\* kind_error_impl, the let bindings from source_type to name
ResolvedPlan(a, in) ==
  [source_type |-> a.source.v,
   kind_type |-> in.ident,
   new_vis |-> UnwrapOr(a.new_vis, "inherited"),
   type_vis |-> UnwrapOr(a.type_vis, "inherited"),
   kind_fn_vis |-> UnwrapOr(a.kind_fn_vis, "pub"),
   origin_fn_vis |-> UnwrapOr(a.origin_fn_vis, "pub"),
   name |-> IdentNew(UnwrapOr(a.name, StrError), "ident of the declaration")]

Resolve ==
  /\ pc = "resolve"
  /\ phases' = Append(phases, "source_check")
  /\ IF ~attrs.source.some
     THEN Finish(Failed(Diag("source attribute is required", "", SpanDecl))) /\ UNCHANGED plan
     ELSE IF ~IsIdentString(UnwrapOr(attrs.name, StrError))
     THEN Finish(Panicked) /\ UNCHANGED plan
     ELSE /\ plan' = Some(ResolvedPlan(attrs, input))
          /\ pc' = "synth"
          /\ UNCHANGED outcome
  /\ UNCHANGED << input, sel, cursor, attrs, given, obj, ret >>

DefaultTemplate ==
  << Text("error kind: "), Hole("0", "?"), Text(", source: "), Hole("1", "?") >>

\* faulty variant of SourceMethod: emitted whatever source_fn is
SourceMethodAlways(a) == Some("source")

\* the source method of the Error impl: the field it returns, if it is emitted
SourceMethod(a) == IF a.source_fn THEN Some("source") ELSE None

\* faulty variant of DisplayImpl: the user's template is dropped
DisplayImplDefaultOnly(a) ==
  [template |-> DefaultTemplate, args |-> << "kind", "source" >>, locals |-> { }]

\* the Display impl: the template given to write!, its positional arguments
\* and the locals bound before it (each a borrow of the field of its name)
DisplayImpl(a) ==
  IF a.display.some
  THEN [template |-> a.display.v, args |-> << >>, locals |-> { "kind", "source" }]
  ELSE [template |-> DefaultTemplate, args |-> << "kind", "source" >>, locals |-> { }]

\* fn new: the parameter each field of Self is built from
NewBody == [kind |-> "kind", source |-> "source"]
\* faulty variant of KindBody: the other field is borrowed
KindBodyOtherField == "source"

\* fn kind and fn origin: the field borrowed
KindBody == "kind"
OriginBody == "source"

\* the quote! of expand
Expand(p, a) ==
  [struct |-> [derive |-> "Debug", vis |-> p.type_vis, name |-> p.name,
               kind |-> p.kind_type, source |-> p.source_type],
   new |-> [vis |-> p.new_vis, body |-> NewBody],
   kind |-> [vis |-> p.kind_fn_vis, body |-> KindBody],
   origin |-> [vis |-> p.origin_fn_vis, body |-> OriginBody],
   display |-> DisplayImpl(a),
   error |-> [source |-> SourceMethod(a)]]

Synthesize ==
  /\ pc = "synth"
  /\ phases' = Append(phases, "synthesizer")
  /\ Finish(Expanded(Expand(plan.v, attrs)))
  /\ UNCHANGED << input, sel, cursor, attrs, plan, given, obj, ret >>

(***************************************************************************)
(* The generated type in use.                                              *)
(***************************************************************************)
Generated == outcome.kind = "fragment"
Fragment == outcome.fragment.v

\* Error::new(k, s)
New ==
  /\ Generated
  /\ \E k \in KindValues, s \in SourceValues :
       LET params == [kind |-> k, source |-> s] IN
       /\ given' = Some(params)
       /\ obj' = Some([kind |-> params[Fragment.new.body.kind],
                       source |-> params[Fragment.new.body.source]])
  /\ ret' = NoRet
  /\ UNCHANGED << input, pc, sel, cursor, attrs, plan, outcome, phases >>

Call(fn, val) ==
  /\ Generated
  /\ obj.some
  /\ ret' = [fn |-> fn, val |-> val]
  /\ UNCHANGED << input, pc, sel, cursor, attrs, plan, outcome, phases, given, obj >>

\* err.kind()
CallKind == Call("kind", obj.v[Fragment.kind.body])

\* err.origin()
CallOrigin == Call("origin", obj.v[Fragment.origin.body])

\* err.source() of core::error::Error; the trait's default returns None
CallSource ==
  Call("source", IF Fragment.error.source.some THEN Some(obj.v[Fragment.error.source.v])
                 ELSE None)

\* the field a placeholder of the template reads
HoleField(d, h) ==
  IF h.v \in d.locals THEN h.v
  ELSE IF h.v = "0" THEN d.args[1] ELSE d.args[2]

RECURSIVE Write(_, _, _)
\* write!(f, template, args...)
Write(d, pieces, o) ==
  IF pieces = << >> THEN << >>
  ELSE LET h == Head(pieces) IN
       (IF h.t = "text" THEN << h.v >> ELSE Format(HoleField(d, h), h.spec, o))
         \o Write(d, Tail(pieces), o)

\* format!("{}", err)
CallFmt == Call("fmt", [out |-> Write(Fragment.display, Fragment.display.template, obj.v)])

Next ==
  \/ CheckEnum
  \/ FindAttr
  \/ ParseLoop
  \/ ParseEnd
  \/ Resolve
  \/ Synthesize
  \/ New
  \/ CallKind
  \/ CallOrigin
  \/ CallSource
  \/ CallFmt

Spec == Init /\ [][Next]_vars

(***************************************************************************)
(* Vocabulary of the properties: the grammar of an attribute list, read    *)
(* off the token sequence.                                                 *)
(***************************************************************************)
Done == pc = "done"
HasKindError == \E i \in 1..Len(input.attrs) : input.attrs[i].path = "kind_error"
\* the kind_error attribute of the declaration (its first one)
TheAttr == input.attrs[FindKindError(input.attrs)]
HasList == HasKindError /\ TheAttr.form = "list"
List == TheAttr.tokens

IsTypeString(s) == ParseStrType(s).ok
IsVisString(s) == ParseStrVisibility(s).ok

\* the value is the literal kind its key expects, and re-parses where it must
ValueFits(key, tok) ==
  IF key = "source_fn" THEN tok.t = "bool"
  ELSE /\ tok.t = "str"
       /\ key = "source" => IsTypeString(tok.str)
       /\ key \in VisKeys => IsVisString(tok.str)

\* a well-formed pair of a recognized key stands at position i
GoodPairAt(toks, i) ==
  /\ i + 2 <= Len(toks)
  /\ toks[i].t = "ident" /\ toks[i].name \in KnownKeys
  /\ toks[i + 1].t = "eq"
  /\ ValueFits(toks[i].name, toks[i + 2])

PairStarts(n) == { i \in 1..n : i % 4 = 1 }

\* pairs of recognized keys with fitting values, single commas between, optional trailing comma
WellFormed(toks) ==
  /\ Len(toks) % 4 \in { 0, 3 }
  /\ \A i \in PairStarts(Len(toks)) :
       /\ GoodPairAt(toks, i)
       /\ i + 3 <= Len(toks) => toks[i + 3].t = "comma"

\* `key = value` pairs, single commas between, optional trailing comma: any keys, any literals
PairShaped(toks) ==
  /\ Len(toks) % 4 \in { 0, 3 }
  /\ \A i \in PairStarts(Len(toks)) :
       /\ toks[i].t = "ident" /\ toks[i + 1].t = "eq" /\ toks[i + 2].t \in { "str", "bool" }
       /\ i + 3 <= Len(toks) => toks[i + 3].t = "comma"

\* everything before position i is well-formed pairs, each followed by its comma
GoodBefore(toks, i) ==
  /\ i % 4 = 1
  /\ \A j \in PairStarts(i - 1) : GoodPairAt(toks, j) /\ toks[j + 3].t = "comma"

\* a `key = value` pair with a key outside the closed set stands at position i
UnknownPairAt(toks, i) ==
  /\ i + 2 <= Len(toks)
  /\ toks[i].t = "ident" /\ toks[i].name \notin KnownKeys
  /\ toks[i + 1].t = "eq"
  /\ toks[i + 2].t \in { "str", "bool" }

\* the list sets the key (in a well-formed list)
Sets(toks, key) == \E i \in PairStarts(Len(toks)) : toks[i] = Ident(key)
\* the value token the list gives the key: the last one counts
Given(toks, key) ==
  LET i == CHOOSE i \in PairStarts(Len(toks)) :
             /\ toks[i] = Ident(key)
             /\ \A j \in PairStarts(Len(toks)) : toks[j] = Ident(key) => j <= i
  IN toks[i + 2]

EnumMessage == "This macro only supports Enum, not for other types"
SourceMessage == "source attribute is required"

(***************************************************************************)
(* Properties of the generated type.                                       *)
(***************************************************************************)
\* C1: new(k, s) stores both arguments unchanged, kind() returns the stored
\* kind and origin() the stored source, for unit and payload-carrying kinds.
C1_AccessorsReturnStoredFields ==
  (Generated /\ obj.some) =>
    /\ obj.v = given.v
    /\ ret.fn = "kind" => ret.val = given.v.kind
    /\ ret.fn = "origin" => ret.val = given.v.source

C1_Witness ==
  /\ Generated /\ obj.some
  /\ ret.fn = "kind"
  /\ given.v.kind = Kind("Field1", "named", "hello")

\* source_fn as the attribute leaves it: true unless it is set to false
SourceFnGiven == ~(Sets(List, "source_fn") /\ Given(List, "source_fn").b = FALSE)

\* C2: source() returns the stored source exactly when source_fn is true, and
\* no cause when it is false; source_fn is true unless the attribute sets it to false.
C2_CauseFollowsSourceFn ==
  (Generated /\ ret.fn = "source") =>
    ret.val = IF SourceFnGiven THEN Some(given.v.source) ELSE None

C2_Witness ==
  /\ Generated /\ ret.fn = "source"
  /\ ~SourceFnGiven
  /\ ret.val = None

\* the text a template of the model's strings stands for, once instantiated
Instantiated(template, k, s) ==
  IF template = StrTemplate
  THEN << "Custom error: kind=" >> \o DebugKind(k) \o << ", source=" >> \o DisplaySource(s)
  ELSE [i \in 1..Len(template) |-> template[i].v]

\* C3: Display renders "error kind: <debug(kind)>, source: <debug(source)>"
\* when display is omitted, and otherwise the user's template, emitted
\* verbatim, with kind and source bound to the two stored fields.
C3_DisplayRendersTemplate ==
  (Generated /\ ret.fn = "fmt") =>
    IF Sets(List, "display")
    THEN /\ Fragment.display.template = Given(List, "display").str
         /\ ret.val.out =
              Instantiated(Given(List, "display").str, given.v.kind, given.v.source)
    ELSE ret.val.out =
           << "error kind: " >> \o DebugKind(given.v.kind)
             \o << ", source: " >> \o DebugSource(given.v.source)

C3_Witness ==
  /\ Generated /\ ret.fn = "fmt"
  /\ Sets(List, "display") /\ Given(List, "display").str = StrTemplate
  /\ given.v.kind = Kind("Code", "unnamed", "7")

(***************************************************************************)
(* Properties of the generator.                                            *)
(***************************************************************************)
UnknownKeyDiag(toks, i) == Diag("unknown attribute key", toks[i].name, SpanAt(toks, i))

\* C4 as stated: every pair with a key outside the closed set, wherever it
\* stands in the list of an enum, makes generation fail with the unknown-key
\* diagnostic naming that key, anchored at it.
C4_EveryUnknownKeyReported ==
  (Done /\ input.data = "enum" /\ HasList /\ PairShaped(List)) =>
    \A i \in 1..Len(List) :
      UnknownPairAt(List, i) => outcome = Failed(UnknownKeyDiag(List, i))

\* C4 amended: a pair with a key outside the closed set makes generation
\* fail with a diagnostic and no generated code; the diagnostic is the
\* unknown-key one, naming the key and anchored at it, when everything
\* before the pair parses.
C4_FirstUnknownKeyReported ==
  (Done /\ input.data = "enum" /\ HasList) =>
    \A i \in 1..Len(List) :
      UnknownPairAt(List, i) =>
        /\ outcome.kind = "diag" /\ outcome.fragment = None
        /\ GoodBefore(List, i) => outcome = Failed(UnknownKeyDiag(List, i))

C4_Witness ==
  /\ Done /\ input.data = "enum" /\ HasList
  /\ UnknownPairAt(List, 5) /\ GoodBefore(List, 5)
  /\ outcome = Failed(UnknownKeyDiag(List, 5))

\* the declaration gives no source key: no attribute, or a well-formed list without it
NoSourceGiven ==
  \/ ~HasKindError
  \/ HasList /\ WellFormed(List) /\ ~Sets(List, "source")

\* C5: an enum that gives no source key (attribute absent, list empty, or
\* only other well-formed recognized keys) parses with source unset and then
\* fails with "source attribute is required" anchored at the declaration.
C5_SourceRequired ==
  (input.data = "enum" /\ NoSourceGiven) =>
    /\ pc \in { "resolve", "synth", "done" } => ~attrs.source.some
    /\ pc # "synth"
    /\ Done => /\ outcome = Failed(Diag(SourceMessage, "", SpanDecl))
               /\ phases = << "enum_check", "parser", "source_check" >>

C5_Witness ==
  /\ Done /\ input.data = "enum" /\ HasList /\ NoSourceGiven
  /\ Sets(List, "name") /\ Sets(List, "source_fn")
  /\ outcome = Failed(Diag(SourceMessage, "", SpanDecl))

\* C6: a declaration that is not an enum fails with the "only supports Enum"
\* diagnostic anchored at the declaration, whatever its attribute holds.
C6_OnlyEnum ==
  (Done /\ input.data # "enum") => outcome = Failed(Diag(EnumMessage, "", SpanDecl))

C6_Witness ==
  /\ Done /\ input.data = "union"
  /\ HasList /\ ~WellFormed(List)
  /\ outcome = Failed(Diag(EnumMessage, "", SpanDecl))

\* C7: every invocation ends either in the complete generated fragment or in
\* a single diagnostic; nothing panics, whatever string is given for name.
C7_FragmentOrDiagnostic ==
  Done =>
    \/ outcome.kind = "fragment" /\ outcome.fragment.some /\ outcome.diag = NoDiag
    \/ outcome.kind = "diag" /\ outcome.fragment = None /\ outcome.diag # NoDiag

\* the visibility a visibility string names
VisibilityNamed(s) == IF s = StrPub THEN "pub" ELSE "inherited"
VisGiven(key, default) ==
  IF Sets(List, key) THEN VisibilityNamed(Given(List, key).str) ELSE default

\* the documented built-in template, kind and source named in it
BuiltInTemplate ==
  << Text("error kind: "), Hole("kind", "?"), Text(", source: "), Hole("source", "?") >>
NamedFields == [template |-> BuiltInTemplate, args |-> << >>, locals |-> { "kind", "source" }]

\* C8: in the generated code every optional field the attribute leaves unset
\* has its documented default (new_vis and type_vis inherited, kind_fn_vis and
\* origin_fn_vis public, name "Error", source_fn true, display the built-in
\* template), and every field it sets has the value given, whatever the
\* other fields are.
C8_DefaultsAndGivenValues ==
  Generated =>
    /\ Fragment.new.vis = VisGiven("new_vis", "inherited")
    /\ Fragment.struct.vis = VisGiven("type_vis", "inherited")
    /\ Fragment.kind.vis = VisGiven("kind_fn_vis", "pub")
    /\ Fragment.origin.vis = VisGiven("origin_fn_vis", "pub")
    /\ Fragment.struct.name.sym =
         IF Sets(List, "name") THEN Given(List, "name").str[1].v ELSE "Error"
    /\ Fragment.error.source.some = SourceFnGiven
    /\ IF Sets(List, "display")
       THEN Fragment.display.template = Given(List, "display").str
       ELSE \A k \in KindValues, s \in SourceValues :
              LET o == [kind |-> k, source |-> s] IN
              Write(Fragment.display, Fragment.display.template, o)
                = Write(NamedFields, BuiltInTemplate, o)
    /\ Fragment.struct.source = [path |-> Given(List, "source").str[1].v]
    /\ Fragment.struct.kind = input.ident

C8_Witness ==
  /\ Generated
  /\ Sets(List, "type_vis") /\ Given(List, "type_vis").str = StrPub
  /\ ~Sets(List, "kind_fn_vis") /\ ~Sets(List, "name") /\ ~Sets(List, "display")
  /\ Fragment.struct.vis = "pub" /\ Fragment.kind.vis = "pub"

RECURSIVE Offending(_, _)
\* scanning pairs from position i, the first position that does not fit the
\* grammar of the list; 0 when the list fits
Offending(toks, i) ==
  IF i > Len(toks) THEN 0
  ELSE IF toks[i].t # "ident" THEN i
  ELSE IF i + 1 > Len(toks) \/ toks[i + 1].t # "eq" THEN i + 1
  ELSE IF toks[i].name \notin KnownKeys THEN i
  ELSE IF i + 2 > Len(toks) \/ ~ValueFits(toks[i].name, toks[i + 2]) THEN i + 2
  ELSE IF i + 3 > Len(toks) THEN 0
  ELSE IF toks[i + 3].t # "comma" THEN i + 3
  ELSE Offending(toks, i + 4)

\* the parser returned Ok / returned a diagnostic
Accepted == pc \in { "resolve", "synth" } \/ (Done /\ Len(phases) >= 3)
Rejected == Done /\ phases = << "enum_check", "parser" >>

\* the parser accepts the list of an enum exactly when the list is well-formed
ParserAcceptsWellFormedOnly ==
  (input.data = "enum" /\ HasList /\ (Accepted \/ Rejected)) =>
    (Accepted <=> WellFormed(List))

\* C9: the parser accepts a list exactly when it is well-formed pairs of
\* recognized keys with fitting values, and otherwise fails with a diagnostic
\* at the first offending position, scanning left to right.
C9_RejectsAtFirstOffendingPosition ==
  (input.data = "enum" /\ HasList /\ (Accepted \/ Rejected)) =>
    /\ Accepted <=> WellFormed(List)
    /\ Rejected =>
         /\ outcome.kind = "diag"
         /\ outcome.diag.span = SpanAt(List, Offending(List, 1))

\* the attribute has a parse error / the declaration fails a validation rule
ParseError == HasKindError /\ (TheAttr.form # "list" \/ ~WellFormed(List))
NoSourceKey == ~HasList \/ \A i \in 1..Len(List) : List[i] # Ident("source")
ValidationFailure == input.data # "enum" \/ NoSourceKey
ParserDiagnostic == outcome.kind = "diag" /\ outcome.diag.msg \notin { EnumMessage, SourceMessage }

PhaseOrder == << "enum_check", "parser", "source_check", "synthesizer" >>

\* C10 as stated: the attribute is parsed before any validation rule, the enum
\* check included, so an input with both a parse error and a validation
\* failure reports the parser's diagnostic.
C10_ParserDiagnosticFirst ==
  (Done /\ ParseError /\ ValidationFailure) => ParserDiagnostic

\* C10 amended: the phases run in the order enum check, parser, required-source
\* check, synthesizer.  A declaration that is not an enum reports the enum
\* diagnostic even when its attribute has a parse error; an enum whose
\* attribute has a parse error reports the parser's diagnostic, also when
\* source is missing; the synthesizer runs only after all of them succeeded.
C10_EnumCheckThenParserThenSource ==
  /\ phases = SubSeq(PhaseOrder, 1, Len(phases))
  /\ (Done /\ ParseError) =>
       IF input.data = "enum"
       THEN ParserDiagnostic /\ phases = << "enum_check", "parser" >>
       ELSE outcome = Failed(Diag(EnumMessage, "", SpanDecl)) /\ phases = << "enum_check" >>
  /\ Generated =>
       /\ phases = PhaseOrder
       /\ input.data = "enum" /\ ~ParseError /\ attrs.source.some

C10_Witness ==
  /\ Done /\ input.data = "enum"
  /\ ParseError /\ NoSourceKey
  /\ HasList /\ Len(List) >= 3
  /\ ParserDiagnostic

====
